---- MODULE Spec2Model ----
(***************************************************************************)
(* Encryption key lifecycle manager (src/utils/keyManager.ts) over the     *)
(* expo-secure-store keychain, with the environment classifier             *)
(* (platformCheck).  Every await of a SecureStore call is one atomic step  *)
(* of the calling async function; each such call may succeed or reject.   *)
(***************************************************************************)
EXTENDS Integers, Sequences, FiniteSets

VARIABLES
    env,        \* the build/runtime: [dev, os, systemName]  (__DEV__, Platform)
    store,      \* the keychain: partial function alias -> string
    now,        \* Date.now(), in ms since the installation's first launch
    generated,  \* number of keys generateSecureKey has produced so far
    pc,         \* per caller: the await the async call is suspended at
    op,         \* per caller: the exported function being executed
    loc,        \* per caller: local variables of the running call
    res,        \* per caller: what the finished call gave its caller
    gh,         \* per caller: history of the running call (start state, failures)
    everFailed, \* history: some SecureStore call has been rejected
    app         \* useAppStore: the MMKV instance, its file, the pending initialisation

vars == <<env, store, now, generated, pc, op, loc, res, gh, everFailed, app>>

-----------------------------------------------------------------------------
(* Bounds of the model *)
MaxDays == 8        \* the clock stops after this many days
MaxMinutes == 1     \* minute ticks allowed past a whole number of days
MaxKeys == 4        \* keys the random generator hands out

(* Program constants *)
ENCRYPTION_KEY_ALIAS == "dask_encryption_key"
KEY_CREATION_DATE_ALIAS == "dask_key_creation_date"
KEY_VERSION_ALIAS == "dask_key_version"
KEY_ROTATION_INTERVAL == 7 * 24 * 60 * 60 * 1000
Aliases == {ENCRYPTION_KEY_ALIAS, KEY_CREATION_DATE_ALIAS, KEY_VERSION_ALIAS}

OneMinute == 60 * 1000
KEY_CHECK_INTERVAL == 24 * 60 * 60 * 1000
OneDay == 24 * 60 * 60 * 1000
MaxNow == MaxDays * OneDay + MaxMinutes * OneMinute
Ticks == {OneMinute, OneDay, KEY_ROTATION_INTERVAL}

Procs == {"A", "B"}

-----------------------------------------------------------------------------
(* Strings are sequences of character codes; the digits are 0..9.  A value *)
(* of type string | null is a sequence of at most one string.              *)
NaN == -1
Null == <<>>
Some(s) == <<s>>

IsDigit(c) == c \in 0..9

RECURSIVE ToString(_)
\* Number.prototype.toString() of a non-negative integer: its decimal digits
ToString(n) == IF n < 10 THEN <<n>> ELSE Append(ToString(n \div 10), n % 10)

RECURSIVE DigitsValue(_, _)
\* value of the longest prefix of digits of s, continuing from acc
DigitsValue(s, acc) ==
    IF s = <<>> \/ ~IsDigit(Head(s)) THEN acc
    ELSE DigitsValue(Tail(s), acc * 10 + Head(s))

\* parseInt(s, 10): the leading digits, NaN when there are none
ParseInt(s) == IF s = <<>> \/ ~IsDigit(Head(s)) THEN NaN ELSE DigitsValue(s, 0)

\* JavaScript truthiness of a string | null
Truthy(o) == o # Null /\ o[1] # <<>>

\* a + b and a > b on numbers that may be NaN
JsAdd(a, b) == IF a = NaN \/ b = NaN THEN NaN ELSE a + b
JsSub(a, b) == IF a = NaN \/ b = NaN THEN NaN ELSE a - b
JsGreater(a, b) == a # NaN /\ b # NaN /\ a > b
\* Number.prototype.toString() including NaN (the letters N, a, N: non-digits)
NumToString(n) == IF n = NaN THEN <<78, 97, 78>> ELSE ToString(n)

-----------------------------------------------------------------------------
(* platformCheck *)
isIOSSimulator(e) == e.os = "ios" /\ e.dev /\ e.systemName = "iOS"
isAndroidEmulator_Never(e) == FALSE
isAndroidEmulator(e) == e.os = "android" /\ e.dev
isRealDevice(e) == ~isIOSSimulator(e) /\ ~isAndroidEmulator(e)
shouldUseSecureStore_AlwaysTrue(e) == TRUE
shouldUseSecureStore(e) == ~e.dev \/ isRealDevice(e)

\* Platform.constants.systemName is "iOS" or "iPadOS" on ios, undefined on android
Platforms == {[os |-> "ios", systemName |-> "iOS"],
              [os |-> "ios", systemName |-> "iPadOS"],
              [os |-> "android", systemName |-> "undefined"]}
Envs == {[dev |-> d, os |-> pf.os, systemName |-> pf.systemName] :
            d \in BOOLEAN, pf \in Platforms}
\* an iPhone: the production build and the development build
PhoneEnvs == {e \in Envs : e.os = "ios" /\ e.systemName = "iOS"}

-----------------------------------------------------------------------------
(* SecureStore *)
GetItem(s, a) == IF a \in DOMAIN s THEN Some(s[a]) ELSE Null
SetItem_Nothing(s, a, v) == s
SetItem(s, a, v) == [x \in DOMAIN s \cup {a} |-> IF x = a THEN v ELSE s[x]]
DeleteItem_Keeps(s, a) == s
DeleteItem(s, a) == [x \in DOMAIN s \ {a} |-> s[x]]
EmptyStore == [x \in {} |-> <<>>]

(* generateSecureKey: the n-th draw of 32 random bytes, base64 encoded; *)
(* distinct draws are distinct strings                                   *)
KeyText_Same(n) == <<0>>
KeyText(n) == <<n>>

-----------------------------------------------------------------------------
(* Pure parts of the key manager *)

\* shouldRotateKey, lines 94-108: the decision from the string read
shouldRotate_GreaterOrEqual(creationDateStr, currentDate) ==
    IF ~Truthy(creationDateStr) THEN TRUE
    ELSE JsGreater(JsSub(currentDate, ParseInt(creationDateStr[1])), KEY_ROTATION_INTERVAL - 1)
shouldRotate_Never(creationDateStr, currentDate) == FALSE
shouldRotate_Always(creationDateStr, currentDate) == TRUE
shouldRotate(creationDateStr, currentDate) ==
    IF ~Truthy(creationDateStr) THEN TRUE
    ELSE JsGreater(JsSub(currentDate, ParseInt(creationDateStr[1])), KEY_ROTATION_INTERVAL)

\* shouldRotateKey, lines 109-112: the answer of the catch block
shouldRotateCaught_False == FALSE
shouldRotateCaught == TRUE

\* getKeyVersion, line 80
versionOf(version) == IF Truthy(version) THEN ParseInt(version[1]) ELSE 0

\* rotateKey, line 122
newVersionOf_Same(currentVersion) == currentVersion
newVersionOf_Two(currentVersion) == JsAdd(currentVersion, 2)
newVersionOf(currentVersion) == JsAdd(currentVersion, 1)

\* getOrCreateEncryptionKey, line 176: the version of a key created afresh
FirstVersion_Next == 1 + 1
FirstVersion == 1

-----------------------------------------------------------------------------
NoLoc == [key |-> <<>>, version |-> 0, hasKey |-> FALSE, infoVersion |-> 0, age |-> 0]
NoRes == [kind |-> "none", key |-> <<>>,
          info |-> [hasKey |-> FALSE, version |-> 0, age |-> 0, needsRotation |-> FALSE]]
NoGh == [start |-> EmptyStore, gen0 |-> 0,
         touched |-> FALSE, rok |-> FALSE, rfail |-> FALSE, wfail |-> FALSE, dfail |-> FALSE,
         failAt |-> "", prev |-> "", leak |-> {},
         currentVersion |-> Null, newKey |-> Null, overlap |-> FALSE]

\* useAppStore at module load: no MMKV instance yet, nothing persisted, the
\* first initializeStorage() about to run
NoApp == [storage |-> Null, isStorageInitialized |-> FALSE, disk |-> Null,
          pending |-> "load", lastInit |-> "none", fault |-> FALSE]

Init ==
    /\ env \in PhoneEnvs
    /\ store = EmptyStore
    /\ now = 0
    /\ generated = 0
    /\ pc = [p \in Procs |-> "idle"]
    /\ op = [p \in Procs |-> "none"]
    /\ loc = [p \in Procs |-> NoLoc]
    /\ res = [p \in Procs |-> NoRes]
    /\ gh = [p \in Procs |-> NoGh]
    /\ everFailed = FALSE
    /\ app = NoApp

Running(p) == pc[p] \notin {"idle", "done"}

(* What reaches the console or an error message, as the set of key texts  *)
(* the value contains.                                                     *)
\* a literal message
Plain == {}
\* the reason SecureStore rejects a call with: the platform's error, which
\* names the failed operation
Rejection == Plain
\* storeKeySecurely, line 55: the error thrown, key being in scope
StoreKeyError_WithKey(key) == {key}
StoreKeyError(key) == Plain
\* rotateKey, line 136: the error thrown, newKey being in scope
RotateKeyError(newKey) == Plain
\* the values passed to console.error and console.warn, and the errors
\* thrown, when the store call awaited at pc[p] is rejected: lines 54-55,
\* 68, 82, 110, 135-136, 180-184, 208, 237
Logged(p) ==
    IF pc[p] \in {"setKey", "setDate", "setVersion"}
    THEN Rejection \cup StoreKeyError(loc[p].key) \cup RotateKeyError(loc[p].key) \cup Plain
    ELSE Rejection
\* keyManagerDebug, lines 13-51: the values logKeyInfo, forceRotation and
\* clearKeys pass to the console for the result r of the call they await:
\* a returned key is dropped, a caught error is logged, of a key info the
\* flags and numbers are logged
DebugLogged(r) ==
    IF r.kind = "error" THEN RotateKeyError(r.key) ELSE Plain

\* the history record of a call that starts now
\* how caller p's latest finished call ended, when that call was a
\* clearAllKeys: the delete that was rejected, "" when none was; it is
\* remembered for the getOrCreateEncryptionKey that follows the call
PrevOf(p) ==
    IF pc[p] = "done"
    THEN IF op[p] = "clearAllKeys" THEN gh[p].failAt ELSE ""
    ELSE gh[p].prev
StartGh == [NoGh EXCEPT !.start = store, !.gen0 = generated]
\* caller p starts a call with the history g: the call overlaps the calls
\* that are at an await now, and they overlap it
Entered(p, g) ==
    gh' = [q \in Procs |->
            IF q = p THEN [g EXCEPT !.overlap = \E r \in Procs \ {p} : Running(r)]
            ELSE IF Running(q) THEN [gh[q] EXCEPT !.overlap = TRUE]
            ELSE gh[q]]
\* the history after a store call of the given kind, resolved or rejected;
\* failAt is the await at which a write or a delete of the call was
\* rejected; cv and nk are the version rotateKey has read and the key the
\* call has generated to store, once it has
CalledNoting(p, kind, ok, cv, nk) ==
    /\ gh' = [gh EXCEPT ![p] =
                [@ EXCEPT !.touched = TRUE,
                          !.rok = @ \/ (kind = "read" /\ ok),
                          !.rfail = @ \/ (kind = "read" /\ ~ok),
                          !.wfail = @ \/ (kind = "write" /\ ~ok),
                          !.dfail = @ \/ (kind = "delete" /\ ~ok),
                          !.failAt = IF kind \in {"write", "delete"} /\ ~ok
                                     THEN pc[p] ELSE @,
                          !.leak = IF ok THEN @ ELSE @ \cup Logged(p),
                          !.currentVersion = cv,
                          !.newKey = nk]]
    /\ everFailed' = (everFailed \/ ~ok)
Called(p, kind, ok) == CalledNoting(p, kind, ok, gh[p].currentVersion, gh[p].newKey)

KeyResult(k) == [NoRes EXCEPT !.kind = "key", !.key = k]
ErrorResult == [NoRes EXCEPT !.kind = "error"]
VoidResult == [NoRes EXCEPT !.kind = "void"]
InfoResult(i) == [NoRes EXCEPT !.kind = "info", !.info = i]

\* the clock advances; a call's store accesses take less than the clock's
\* resolution, so time passes between calls, after the caller has taken
\* the result of the call it awaited
Tick ==
    /\ \A p \in Procs : ~Running(p)
    /\ \E d \in Ticks :
        /\ now + d <= MaxNow
        /\ (now + d) % OneDay <= MaxMinutes * OneMinute
        /\ now' = now + d
    /\ pc' = [p \in Procs |-> "idle"]
    /\ op' = [p \in Procs |-> "none"]
    /\ res' = [p \in Procs |-> NoRes]
    /\ gh' = [p \in Procs |-> [NoGh EXCEPT !.prev = PrevOf(p)]]
    /\ UNCHANGED <<app, env, store, generated, loc, everFailed>>

-----------------------------------------------------------------------------
\* the running call returns r (or raises, r.kind = "error"); its locals die
Return(p, r) ==
    /\ res' = [res EXCEPT ![p] = r]
    /\ pc' = [pc EXCEPT ![p] = "done"]
    /\ loc' = [loc EXCEPT ![p] = NoLoc]

\* the running call goes on to its next await with locals l
Goto(p, at, l) ==
    /\ pc' = [pc EXCEPT ![p] = at]
    /\ loc' = [loc EXCEPT ![p] = l]
    /\ UNCHANGED res

(* The exported functions, up to their first await *)

\* getOrCreateEncryptionKey, lines 145-158
GetOrCreateEncryptionKey(p) ==
    /\ ~Running(p)
    /\ generated + 2 <= MaxKeys
    /\ op' = [op EXCEPT ![p] = "getOrCreateEncryptionKey"]
    /\ Entered(p, [StartGh EXCEPT !.prev = PrevOf(p)])
    /\ UNCHANGED everFailed
    /\ IF ~shouldUseSecureStore(env)
       THEN /\ generated' = generated + 1
            /\ Return(p, KeyResult(KeyText(generated + 1)))
       ELSE /\ pc' = [pc EXCEPT ![p] = "shouldRotateKey"]
            /\ loc' = [loc EXCEPT ![p] = NoLoc]
            /\ res' = [res EXCEPT ![p] = NoRes]
            /\ UNCHANGED generated
    /\ UNCHANGED <<app, env, store, now>>

\* forceKeyRotation, lines 193-196: enters rotateKey
ForceKeyRotation(p) ==
    /\ ~Running(p)
    /\ generated + 1 <= MaxKeys
    /\ op' = [op EXCEPT ![p] = "forceKeyRotation"]
    /\ loc' = [loc EXCEPT ![p] = NoLoc]
    /\ Entered(p, StartGh)
    /\ UNCHANGED everFailed
    /\ res' = [res EXCEPT ![p] = NoRes]
    /\ pc' = [pc EXCEPT ![p] = "getKeyVersion"]
    /\ UNCHANGED <<app, env, store, now, generated>>

\* clearAllKeys, lines 201-203
ClearAllKeys(p) ==
    /\ ~Running(p)
    /\ op' = [op EXCEPT ![p] = "clearAllKeys"]
    /\ loc' = [loc EXCEPT ![p] = NoLoc]
    /\ Entered(p, StartGh)
    /\ UNCHANGED everFailed
    /\ res' = [res EXCEPT ![p] = NoRes]
    /\ pc' = [pc EXCEPT ![p] = "deleteKey"]
    /\ UNCHANGED <<app, env, store, now, generated>>

\* getKeyInfo, lines 216-223: enters getStoredKey
GetKeyInfo(p) ==
    /\ ~Running(p)
    /\ op' = [op EXCEPT ![p] = "getKeyInfo"]
    /\ loc' = [loc EXCEPT ![p] = NoLoc]
    /\ Entered(p, StartGh)
    /\ UNCHANGED everFailed
    /\ res' = [res EXCEPT ![p] = NoRes]
    /\ pc' = [pc EXCEPT ![p] = "getStoredKey"]
    /\ UNCHANGED <<app, env, store, now, generated>>

-----------------------------------------------------------------------------------------------------------------------------------------------------
(* How an error raised by storeKeySecurely leaves the running call:        *)
(* storeKeySecurely (53-56) and rotateKey (134-137) rethrow;               *)
(* getOrCreateEncryptionKey (179-186) catches and returns a new key;       *)
(* forceKeyRotation (193-196) lets the error reach its caller.             *)
Thrown_Swallowed(p) ==
    /\ Return(p, KeyResult(loc[p].key))
    /\ UNCHANGED generated
Thrown_Propagates(p) ==
    /\ Return(p, ErrorResult)
    /\ UNCHANGED generated
Thrown(p) ==
    IF op[p] = "getOrCreateEncryptionKey"
    THEN /\ generated' = generated + 1
         /\ Return(p, KeyResult(KeyText(generated + 1)))
    ELSE /\ Return(p, ErrorResult)
         /\ UNCHANGED generated

\* shouldRotateKey, lines 91-113, and what its caller does with the answer
\* (getOrCreateEncryptionKey 158-166, getKeyInfo 228-235)
ShouldRotateKey(p) ==
    /\ pc[p] = "shouldRotateKey"
    /\ \E ok \in BOOLEAN :
        LET needsRotation ==
                IF ok THEN shouldRotate(GetItem(store, KEY_CREATION_DATE_ALIAS), now)
                      ELSE shouldRotateCaught
        IN  /\ Called(p, "read", ok)
            /\ IF op[p] = "getKeyInfo"
               THEN Return(p, InfoResult(
                        [hasKey |-> loc[p].hasKey, version |-> loc[p].infoVersion,
                         age |-> loc[p].age, needsRotation |-> needsRotation]))
               ELSE Goto(p, IF needsRotation THEN "getKeyVersion" ELSE "getStoredKey",
                         loc[p])
    /\ UNCHANGED <<app, env, store, now, generated, op>>

\* getKeyVersion, lines 77-85, and what its caller does with the answer
\* (rotateKey 121-128, getKeyInfo 224-225)
GetKeyVersion(p) ==
    /\ pc[p] = "getKeyVersion"
    /\ \E ok \in BOOLEAN :
        LET currentVersion ==
                IF ok THEN versionOf(GetItem(store, KEY_VERSION_ALIAS)) ELSE 0
        IN  /\ IF op[p] = "getKeyInfo"
               THEN /\ Called(p, "read", ok)
                    /\ Goto(p, "infoDate", [loc[p] EXCEPT !.infoVersion = currentVersion])
                    /\ UNCHANGED generated
               ELSE /\ CalledNoting(p, "read", ok,
                                    Some(currentVersion), Some(KeyText(generated + 1)))
                    /\ Goto(p, "setKey",
                            [loc[p] EXCEPT !.version = newVersionOf(currentVersion),
                                           !.key = KeyText(generated + 1)])
                    /\ generated' = generated + 1
    /\ UNCHANGED <<app, env, store, now, op>>

\* getStoredKey, lines 63-71, and what its caller does with the answer
\* (getOrCreateEncryptionKey 166-176, getKeyInfo 223-224)
GetStoredKey(p) ==
    /\ pc[p] = "getStoredKey"
    /\ \E ok \in BOOLEAN :
        LET key == IF ok THEN GetItem(store, ENCRYPTION_KEY_ALIAS) ELSE Null
        IN  /\ IF op[p] = "getKeyInfo"
               THEN /\ Called(p, "read", ok)
                    /\ Goto(p, "getKeyVersion", [loc[p] EXCEPT !.hasKey = (key # Null)])
                    /\ UNCHANGED generated
               ELSE IF Truthy(key)
               THEN /\ Called(p, "read", ok)
                    /\ Return(p, KeyResult(key[1]))
                    /\ UNCHANGED generated
               ELSE /\ CalledNoting(p, "read", ok,
                                    gh[p].currentVersion, Some(KeyText(generated + 1)))
                    /\ Goto(p, "setKey",
                            [loc[p] EXCEPT !.version = FirstVersion,
                                           !.key = KeyText(generated + 1)])
                    /\ generated' = generated + 1
    /\ UNCHANGED <<app, env, store, now, op>>

\* storeKeySecurely, line 46: the key material
SetKey(p) ==
    /\ pc[p] = "setKey"
    /\ \E ok \in BOOLEAN :
        /\ Called(p, "write", ok)
        /\ IF ok
           THEN /\ store' = SetItem(store, ENCRYPTION_KEY_ALIAS, loc[p].key)
                /\ Goto(p, "setDate", loc[p])
                /\ UNCHANGED generated
           ELSE /\ Thrown(p)
                /\ UNCHANGED store
    /\ UNCHANGED <<app, env, now, op>>

\* storeKeySecurely, line 49: the creation date
SetDate_Undoes(p) ==
    /\ pc[p] = "setDate"
    /\ \E ok \in BOOLEAN :
        /\ Called(p, "write", ok)
        /\ IF ok
           THEN /\ store' = SetItem(store, KEY_CREATION_DATE_ALIAS, ToString(now))
                /\ Goto(p, "setVersion", loc[p])
                /\ UNCHANGED generated
           ELSE /\ Thrown(p)
                /\ store' = gh[p].start
    /\ UNCHANGED <<app, env, now, op>>
SetDate(p) ==
    /\ pc[p] = "setDate"
    /\ \E ok \in BOOLEAN :
        /\ Called(p, "write", ok)
        /\ IF ok
           THEN /\ store' = SetItem(store, KEY_CREATION_DATE_ALIAS, ToString(now))
                /\ Goto(p, "setVersion", loc[p])
                /\ UNCHANGED generated
           ELSE /\ Thrown(p)
                /\ UNCHANGED store
    /\ UNCHANGED <<app, env, now, op>>

\* storeKeySecurely, line 50: the version; then rotateKey (133) or
\* getOrCreateEncryptionKey (178) returns the new key
SetVersion_Increments(p) ==
    /\ pc[p] = "setVersion"
    /\ \E ok \in BOOLEAN :
        /\ Called(p, "write", ok)
        /\ IF ok
           THEN /\ store' = SetItem(store, KEY_VERSION_ALIAS,
                                    NumToString(JsAdd(versionOf(GetItem(store, KEY_VERSION_ALIAS)), 1)))
                /\ Return(p, KeyResult(loc[p].key))
                /\ UNCHANGED generated
           ELSE /\ Thrown(p)
                /\ UNCHANGED store
    /\ UNCHANGED <<app, env, now, op>>
SetVersion(p) ==
    /\ pc[p] = "setVersion"
    /\ \E ok \in BOOLEAN :
        /\ Called(p, "write", ok)
        /\ IF ok
           THEN /\ store' = SetItem(store, KEY_VERSION_ALIAS, NumToString(loc[p].version))
                /\ Return(p, KeyResult(loc[p].key))
                /\ UNCHANGED generated
           ELSE /\ Thrown(p)
                /\ UNCHANGED store
    /\ UNCHANGED <<app, env, now, op>>

\* clearAllKeys, lines 206-209: the catch block logs and returns
ClearCaught_Rethrows(p) == Return(p, ErrorResult)
ClearCaught(p) == Return(p, VoidResult)

\* clearAllKeys, lines 203-209: one delete; a rejected delete is caught and
\* ends the call, the deletes after it are not attempted
Delete(p, at, alias, next) ==
    /\ pc[p] = at
    /\ \E ok \in BOOLEAN :
        /\ Called(p, "delete", ok)
        /\ IF ok
           THEN /\ store' = DeleteItem(store, alias)
                /\ IF next = "done" THEN Return(p, VoidResult) ELSE Goto(p, next, loc[p])
           ELSE /\ ClearCaught(p)
                /\ UNCHANGED store
    /\ UNCHANGED <<app, env, now, generated, op>>

DeleteKey(p) == Delete(p, "deleteKey", ENCRYPTION_KEY_ALIAS, "deleteDate")
DeleteDate(p) == Delete(p, "deleteDate", KEY_CREATION_DATE_ALIAS, "deleteVersion")
DeleteVersion_DeletesDate(p) == Delete(p, "deleteVersion", KEY_CREATION_DATE_ALIAS, "done")
DeleteVersion(p) == Delete(p, "deleteVersion", KEY_VERSION_ALIAS, "done")

\* getKeyInfo, lines 236-244: the catch block
InfoCaught_Rethrows(p) == Return(p, ErrorResult)
InfoCaught(p) ==
    Return(p, InfoResult(
        [hasKey |-> FALSE, version |-> 0, age |-> 0, needsRotation |-> TRUE]))

\* getKeyInfo, lines 225-227: its own read of the creation date
InfoDate_Writes(p) ==
    /\ pc[p] = "infoDate"
    /\ \E ok \in BOOLEAN :
        /\ Called(p, "read", ok)
        /\ IF ok
           THEN LET creationDateStr == GetItem(store, KEY_CREATION_DATE_ALIAS)
                    creationDate == IF Truthy(creationDateStr)
                                    THEN ParseInt(creationDateStr[1]) ELSE now
                IN  Goto(p, "shouldRotateKey", [loc[p] EXCEPT !.age = JsSub(now, creationDate)])
           ELSE InfoCaught(p)
    /\ store' = SetItem(store, KEY_CREATION_DATE_ALIAS, ToString(now))
    /\ UNCHANGED <<app, env, now, generated, op>>
InfoDate(p) ==
    /\ pc[p] = "infoDate"
    /\ \E ok \in BOOLEAN :
        /\ Called(p, "read", ok)
        /\ IF ok
           THEN LET creationDateStr == GetItem(store, KEY_CREATION_DATE_ALIAS)
                    creationDate == IF Truthy(creationDateStr)
                                    THEN ParseInt(creationDateStr[1]) ELSE now
                IN  Goto(p, "shouldRotateKey", [loc[p] EXCEPT !.age = JsSub(now, creationDate)])
           ELSE InfoCaught(p)
    /\ UNCHANGED <<app, env, store, now, generated, op>>

-----
Step(p) ==
    \/ GetOrCreateEncryptionKey(p)
    \/ ForceKeyRotation(p)
    \/ ClearAllKeys(p)
    \/ GetKeyInfo(p)
    \/ ShouldRotateKey(p)
    \/ GetKeyVersion(p)
    \/ GetStoredKey(p)
    \/ SetKey(p)
    \/ SetDate(p)
    \/ SetVersion(p)
    \/ DeleteKey(p)
    \/ DeleteDate(p)
    \/ DeleteVersion(p)
    \/ InfoDate(p)

(* One call at a time: caller A awaits each call before making the next *)
Next == Tick \/ Step("A")

Spec == Init /\ [][Next]_vars

-----------------------------------------------------------------------------
(* useAppStore: the persisted application store. initializeStorage awaits  *)
(* getOrCreateEncryptionKey (caller A) and opens the MMKV file             *)
(* 'dask-driver-storage' with the key it returns; every 24 hours           *)
(* checkKeyRotation awaits getKeyInfo (caller B) and, when needsRotation   *)
(* is true, runs initializeStorage again. app.disk is the key the          *)
(* persisted data is encrypted with, Null while nothing is persisted.      *)

\* initializeStorage, lines 198-201: up to the first await
InitializeStorage ==
    /\ app.pending # "none"
    /\ \A p \in Procs : pc[p] = "idle"
    /\ GetOrCreateEncryptionKey("A")

\* the MMKV instances of lines 202-205 and 211-213
EncryptedHandle(key) == [id |-> "dask-driver-storage", encryptionKey |-> Some(key)]
FallbackHandle == [id |-> "dask-driver-storage-fallback", encryptionKey |-> Null]

\* initializeStorage, lines 202-216: the key arrived and the instance is
\* constructed; when the constructor throws, the unencrypted fallback
\* instance is constructed in the catch block; when that throws as well
\* initializeStorage rejects and nothing is assigned (lines 220-222)
OpenStorage ==
    /\ pc["A"] = "done" /\ op["A"] = "getOrCreateEncryptionKey"
    /\ res["A"].kind = "key"
    /\ \E outcome \in {"encrypted", "fallback", "rejected"} :
        app' = [app EXCEPT
                  !.storage = IF outcome = "encrypted" THEN Some(EncryptedHandle(res["A"].key))
                              ELSE IF outcome = "fallback" THEN Some(FallbackHandle)
                              ELSE @,
                  !.isStorageInitialized = IF outcome = "rejected" THEN @ ELSE TRUE,
                  !.lastInit = IF outcome = "rejected" THEN @ ELSE app.pending,
                  !.pending = "none"]
    /\ pc' = [pc EXCEPT !["A"] = "idle"]
    /\ op' = [op EXCEPT !["A"] = "none"]
    /\ res' = [res EXCEPT !["A"] = NoRes]
    /\ gh' = [gh EXCEPT !["A"] = NoGh]
    /\ UNCHANGED <<env, store, now, generated, loc, everFailed>>

\* mmkvStorage, lines 251, 259, 266: the test that opens each adapter
\* function
AdapterReady_Always(a) == TRUE
AdapterReady(a) == a.isStorageInitialized

\* mmkvStorage.getItem, lines 250-257: what was persisted comes back when
\* the open instance is the one the data was written through, with the key
\* the data is encrypted with
Readable(a) == a.isStorageInitialized /\ a.disk = a.storage
\* what getItem returns in the state a of the application: null, the
\* persisted value, or a TypeError when the storage variable is used
\* before it is assigned
AdapterGetItem(a) ==
    IF ~AdapterReady(a) THEN "null"
    ELSE IF a.storage = Null THEN "TypeError"
    ELSE IF a.disk = a.storage THEN "value"
    ELSE "null"

\* mmkvStorage.setItem, lines 258-264: the store persists its state;
\* app.fault records a use of the storage variable before it is assigned
Persist ==
    /\ IF AdapterReady(app)
       THEN app' = [app EXCEPT !.fault = @ \/ app.storage = Null,
                               !.disk = IF app.storage = Null THEN @ ELSE app.storage]
       ELSE UNCHANGED app
    /\ UNCHANGED <<env, store, now, generated, pc, op, loc, res, gh, everFailed>>

\* mmkvStorage.removeItem, lines 265-271
AdapterRemoveItem ==
    /\ IF AdapterReady(app)
       THEN app' = [app EXCEPT !.fault = @ \/ app.storage = Null,
                               !.disk = IF app.storage # Null /\ app.disk = app.storage
                                        THEN Null ELSE @]
       ELSE UNCHANGED app
    /\ UNCHANGED <<env, store, now, generated, pc, op, loc, res, gh, everFailed>>

\* setInterval, lines 242-246, and checkKeyRotation, lines 227-229: a
\* whole number of check intervals after load the timer fires
CheckKeyRotation ==
    /\ now > 0
    /\ now % KEY_CHECK_INTERVAL = 0
    /\ app.pending = "none"
    /\ \A p \in Procs : pc[p] = "idle"
    /\ GetKeyInfo("B")

\* checkKeyRotation, lines 229-235: the key info arrived
CheckDone ==
    /\ pc["B"] = "done" /\ op["B"] = "getKeyInfo"
    /\ app' = [app EXCEPT !.pending = IF res["B"].info.needsRotation THEN "check" ELSE @]
    /\ pc' = [pc EXCEPT !["B"] = "idle"]
    /\ op' = [op EXCEPT !["B"] = "none"]
    /\ res' = [res EXCEPT !["B"] = NoRes]
    /\ gh' = [gh EXCEPT !["B"] = NoGh]
    /\ UNCHANGED <<env, store, now, generated, loc, everFailed>>

\* time passes while the application is idle
TickApp ==
    /\ app.pending = "none"
    /\ \A p \in Procs : pc[p] = "idle"
    /\ Tick

NextApp ==
    \/ InitializeStorage
    \/ ShouldRotateKey("A") \/ GetKeyVersion("A") \/ GetStoredKey("A")
    \/ SetKey("A") \/ SetDate("A") \/ SetVersion("A")
    \/ OpenStorage
    \/ Persist
    \/ AdapterRemoveItem
    \/ TickApp
    \/ CheckKeyRotation
    \/ GetStoredKey("B") \/ GetKeyVersion("B") \/ InfoDate("B") \/ ShouldRotateKey("B")
    \/ CheckDone

SpecApp == Init /\ [][NextApp]_vars

(* The keychain outlives the process and the installation, and the key    *)
(* manager reads whatever text it finds under its aliases: the calls of    *)
(* one caller on a keychain that holds a key with some version text.       *)
VersionTexts == {<<>>, <<7>>, <<1, 78>>, <<118, 2>>}

InitStored ==
    /\ env \in PhoneEnvs
    /\ \E t \in VersionTexts :
        store = SetItem(SetItem(SetItem(EmptyStore,
                    ENCRYPTION_KEY_ALIAS, KeyText(0)),
                    KEY_CREATION_DATE_ALIAS, ToString(0)),
                    KEY_VERSION_ALIAS, t)
    /\ now = 0
    /\ generated = 0
    /\ pc = [p \in Procs |-> "idle"]
    /\ op = [p \in Procs |-> "none"]
    /\ loc = [p \in Procs |-> NoLoc]
    /\ res = [p \in Procs |-> NoRes]
    /\ gh = [p \in Procs |-> NoGh]
    /\ everFailed = FALSE
    /\ app = NoApp

NextStored == Step("A")

SpecStored == InitStored /\ [][NextStored]_vars

(* Overlapping calls: the exported functions are async and nothing in the  *)
(* module serialises them, so a second call can start while the first is   *)
(* suspended at an await. Two callers make one call each, in any           *)
(* interleaving of their awaits, on the keychain an earlier run left: no   *)
(* key, or a key at some version that is fresh or stale by now.            *)
MaxStoredVersion == 2

InitConc ==
    /\ env \in PhoneEnvs
    /\ \/ store = EmptyStore
       \/ \E v \in 1..MaxStoredVersion :
            store = SetItem(SetItem(SetItem(EmptyStore,
                        ENCRYPTION_KEY_ALIAS, KeyText(0)),
                        KEY_CREATION_DATE_ALIAS, ToString(0)),
                        KEY_VERSION_ALIAS, ToString(v))
    /\ now \in {0, MaxDays * OneDay}
    /\ generated = 0
    /\ pc = [p \in Procs |-> "idle"]
    /\ op = [p \in Procs |-> "none"]
    /\ loc = [p \in Procs |-> NoLoc]
    /\ res = [p \in Procs |-> NoRes]
    /\ gh = [p \in Procs |-> NoGh]
    /\ everFailed = FALSE
    /\ app = NoApp

NextConc == \E p \in Procs : pc[p] # "done" /\ Step(p)

SpecConc == InitConc /\ [][NextConc]_vars

-----------------------------------------------------------------------------
(* Vocabulary of the properties *)

Trusted == shouldUseSecureStore(env)
Finished(p, f) == pc[p] = "done" /\ op[p] = f
\* no store call of the call p has finished was rejected
NoFailure(p) == ~gh[p].rfail /\ ~gh[p].wfail /\ ~gh[p].dfail
\* the key p's call returned was generated during that call
FreshKey(p) == res[p].kind = "key" /\ res[p].key # <<>> /\ res[p].key[1] > gh[p].gen0
\* the keychain s holds k as its material
Holds(s, k) == ENCRYPTION_KEY_ALIAS \in DOMAIN s /\ s[ENCRYPTION_KEY_ALIAS] = k
\* the version recorded in s, 0 when none is
StoredVersion(s) ==
    IF KEY_VERSION_ALIAS \in DOMAIN s THEN ParseInt(s[KEY_VERSION_ALIAS]) ELSE 0
\* the age at the present time of the key recorded in s
AgeIn(s) == now - ParseInt(s[KEY_CREATION_DATE_ALIAS])
\* s holds material, creation date and version
Active(s) == DOMAIN s = Aliases

-----------------------------------------------------------------------------
(* C1 as stated: getOrCreateEncryptionKey always returns a key, and        *)
(* whenever a store call (a read or a write) of the call was rejected the  *)
(* key returned is one generated in the call and absent from the store.    *)
C1_AnyFailureGivesUnstoredKey ==
    \A p \in Procs :
        Finished(p, "getOrCreateEncryptionKey") =>
            /\ res[p].kind = "key"
            /\ ~NoFailure(p) => (FreshKey(p) /\ ~Holds(store, res[p].key))

(* C1 amended: getOrCreateEncryptionKey never raises, it always returns a  *)
(* key, in a trusted or untrusted environment and whichever store calls    *)
(* are rejected; whenever a store WRITE was rejected the key returned is   *)
(* one generated in the call and absent from the store.                    *)
C1_NeverRaises ==
    \A p \in Procs :
        Finished(p, "getOrCreateEncryptionKey") =>
            /\ res[p].kind = "key"
            /\ res[p].key # <<>>
            /\ gh[p].wfail => (FreshKey(p) /\ ~Holds(store, res[p].key)
                                /\ ~Holds(gh[p].start, res[p].key))

C1_Witness ==
    /\ Finished("A", "getOrCreateEncryptionKey")
    /\ Trusted
    /\ gh["A"].wfail
    /\ gh["A"].rfail
    /\ Active(gh["A"].start)

(* C2 as stated: no step makes the stored version smaller, and the version *)
(* field disappears only when the store is left with none of its fields.   *)
VersionKept ==
    KEY_VERSION_ALIAS \in DOMAIN store =>
        (IF KEY_VERSION_ALIAS \in DOMAIN store'
         THEN StoredVersion(store') >= StoredVersion(store)
         ELSE DOMAIN store' = {})
C2_VersionNeverDecreases == [][VersionKept]_vars

(* C3: while no store call has ever been rejected and the step is not one  *)
(* of clearAllKeys, the stored version only ever changes from v to v + 1   *)
(* (from none to 1), and every call that generated and stored a key        *)
(* (a rotation by age, a forced rotation, the first creation) has left the *)
(* version it found plus one.                                              *)
VersionStepsByOne ==
    (/\ ~everFailed'
     /\ \A p \in Procs : op'[p] # "clearAllKeys"
     /\ GetItem(store', KEY_VERSION_ALIAS) # GetItem(store, KEY_VERSION_ALIAS))
    => StoredVersion(store') = StoredVersion(store) + 1
C4_AbsenceCreatesVersionOne ==
    \A p \in Procs :
        (pc[p] = "done" /\ NoFailure(p) /\ gh[p].start = EmptyStore) =>
            /\ op[p] = "getKeyInfo" =>
                   (res[p].kind = "info" /\ res[p].info.needsRotation /\ ~res[p].info.hasKey)
            /\ (op[p] = "getOrCreateEncryptionKey" /\ Trusted) =>
                   /\ FreshKey(p)
                   /\ Active(store)
                   /\ store[ENCRYPTION_KEY_ALIAS] = res[p].key
                   /\ store[KEY_VERSION_ALIAS] = <<1>>
                   /\ ParseInt(store[KEY_CREATION_DATE_ALIAS]) = now

\* the store was emptied by a clearAllKeys after keys had been stored
C4_Witness ==
    /\ Finished("A", "getOrCreateEncryptionKey")
    /\ Trusted
    /\ ~everFailed
    /\ gh["A"].start = EmptyStore
    /\ gh["A"].gen0 >= 2
    /\ now >= OneDay

C6_UntrustedTouchesNothing ==
    \A p \in Procs :
        (Finished(p, "getOrCreateEncryptionKey") /\ env.dev /\ ~isRealDevice(env))
        => /\ ~gh[p].touched
           /\ FreshKey(p)
           /\ store = gh[p].start
           /\ ~Holds(store, res[p].key)

\* the second call in a row, on a store that holds an active key
C6_Witness ==
    /\ Finished("A", "getOrCreateEncryptionKey")
    /\ ~Trusted
    /\ Active(store)
    /\ gh["A"].gen0 >= 2
    /\ generated > store[ENCRYPTION_KEY_ALIAS][1] + 1

(* C7: when its read of the creation date succeeds, needsRotation (as      *)
(* getKeyInfo reports it) is true when the field is missing, true when     *)
(* now - createdAt > 604800000, and false otherwise: false at an age of    *)
(* exactly 7 days and at 1 day, true at 8 days.                            *)
C7_NeedsRotationByAge ==
    \A p \in Procs :
        (Finished(p, "getKeyInfo") /\ ~gh[p].rfail) =>
            /\ res[p].kind = "info"
            /\ KEY_CREATION_DATE_ALIAS \notin DOMAIN store => res[p].info.needsRotation
            /\ KEY_CREATION_DATE_ALIAS \in DOMAIN store =>
                /\ res[p].info.needsRotation <=> (AgeIn(store) > 604800000)
                /\ AgeIn(store) = 604800000 => ~res[p].info.needsRotation
                /\ AgeIn(store) = 86400000 => ~res[p].info.needsRotation
                /\ AgeIn(store) = 8 * 86400000 => res[p].info.needsRotation

C7_Witness ==
    /\ Finished("A", "getKeyInfo")
    /\ ~gh["A"].rfail
    /\ Active(store)
    /\ AgeIn(store) = 604800000
    /\ ~res["A"].info.needsRotation

(* C8: a forceKeyRotation none of whose store calls is rejected returns a  *)
(* key generated in the call, and leaves it as the stored material with    *)
(* the version it found plus one and the present time as creation date,    *)
(* whatever the age of the key it found.                                   *)
C8_ForcedRotationIgnoresAge ==
    \A p \in Procs :
        (Finished(p, "forceKeyRotation") /\ NoFailure(p)) =>
            /\ FreshKey(p)
            /\ Active(store)
            /\ store[ENCRYPTION_KEY_ALIAS] = res[p].key
            /\ ~Holds(gh[p].start, res[p].key)
            /\ StoredVersion(store) = StoredVersion(gh[p].start) + 1
            /\ ParseInt(store[KEY_CREATION_DATE_ALIAS]) = now

\* the key replaced was created one minute before
C8_Witness ==
    /\ Finished("A", "forceKeyRotation")
    /\ NoFailure("A")
    /\ Active(gh["A"].start)
    /\ AgeIn(gh["A"].start) = 60 * 1000
    /\ StoredVersion(store) = 2

(* C9: getKeyInfo never raises: whichever reads are rejected it returns a  *)
(* record with exactly the fields hasKey, version, age and needsRotation;  *)
(* when every read it made was rejected, hasKey is false and needsRotation *)
(* is true.                                                                *)
C9_KeyInfoNeverRaises ==
    \A p \in Procs :
        Finished(p, "getKeyInfo") =>
            /\ res[p].kind = "info"
            /\ DOMAIN res[p].info = {"hasKey", "version", "age", "needsRotation"}
            /\ res[p].info.hasKey \in BOOLEAN
            /\ res[p].info.needsRotation \in BOOLEAN
            /\ res[p].info.version \in Int
            /\ res[p].info.age \in Int
            /\ (gh[p].rfail /\ ~gh[p].rok) =>
                   (~res[p].info.hasKey /\ res[p].info.needsRotation)

\* every read was rejected while the store held a fresh active key
C9_Witness ==
    /\ Finished("A", "getKeyInfo")
    /\ gh["A"].rfail
    /\ ~gh["A"].rok
    /\ Active(store)
    /\ AgeIn(store) = 0

(* C10 as stated: a getOrCreateEncryptionKey call that starts on an active *)
(* key (material, creation date and version stored) and returns an         *)
(* ephemeral key because a store write was rejected leaves the store as    *)
(* it found it.                                                            *)
C10_FailedCallLeavesStore ==
    \A p \in Procs :
        (/\ Finished(p, "getOrCreateEncryptionKey")
         /\ Trusted
         /\ gh[p].wfail
         /\ Active(gh[p].start))
        => store = gh[p].start

(* C11: clearAllKeys never raises: a finished call completed normally,     *)
(* whether none of its deletes was rejected or the first, the second or    *)
(* the third was.                                                          *)
C11_ClearNeverRaises ==
    \A p \in Procs :
        Finished(p, "clearAllKeys") =>
            /\ res[p].kind = "void"
            /\ gh[p].failAt \in {"", "deleteKey", "deleteDate", "deleteVersion"}

\* a call whose delete of the version was rejected after two deletes went
\* through
C11_Witness ==
    /\ Finished("A", "clearAllKeys")
    /\ gh["A"].failAt = "deleteVersion"
    /\ Active(gh["A"].start)
    /\ DOMAIN store = {KEY_VERSION_ALIAS}

\* the await of clearAllKeys that deletes the field alias
DeleteAt(alias) ==
    IF alias = ENCRYPTION_KEY_ALIAS THEN "deleteKey"
    ELSE IF alias = KEY_CREATION_DATE_ALIAS THEN "deleteDate"
    ELSE "deleteVersion"

(* C12 as stated: after clearAllKeys every field whose own delete was not  *)
(* rejected is absent from the store.                                      *)
C12_DeletesAreIndependent ==
    \A p \in Procs :
        Finished(p, "clearAllKeys") =>
            \A alias \in Aliases :
                gh[p].failAt # DeleteAt(alias) => alias \notin DOMAIN store

C18_RotationRaisesOnWriteFailure ==
    \A p \in Procs :
        /\ Finished(p, "forceKeyRotation") =>
               /\ gh[p].wfail <=> res[p].kind = "error"
               /\ gh[p].wfail <=> gh[p].failAt \in {"setKey", "setDate", "setVersion"}
               /\ gh[p].wfail => res[p].key = <<>>
               /\ ~gh[p].wfail => FreshKey(p)
        /\ (Finished(p, "getOrCreateEncryptionKey") /\ gh[p].wfail) =>
               /\ res[p].kind = "key"
               /\ FreshKey(p)
               /\ ~Holds(store, res[p].key)

\* the write of the material itself was rejected in a forced rotation
C18_Witness ==
    /\ Finished("A", "forceKeyRotation")
    /\ gh["A"].failAt = "setKey"
    /\ res["A"].kind = "error"
    /\ store = gh["A"].start
    /\ Active(store)

\* the store a storeKeySecurely(k, v) that began on the store s leaves
\* when it is rejected at the given await, and when it gets through
StoredUpTo(s, k, v, at) ==
    LET s1 == SetItem(s, ENCRYPTION_KEY_ALIAS, k)
        s2 == SetItem(s1, KEY_CREATION_DATE_ALIAS, ToString(now))
        s3 == SetItem(s2, KEY_VERSION_ALIAS, v)
    IN  IF at = "setKey" THEN s
        ELSE IF at = "setDate" THEN s1
        ELSE IF at = "setVersion" THEN s2
        ELSE s3

(* C20: storeKeySecurely writes the material, then the present time as     *)
(* creation date, then the version. While it runs the store is the store   *)
(* the call found with the writes so far applied; when a write is rejected *)
(* the store stays so (the writes before it are kept, none after it is     *)
(* made) and the error leaves the call: forceKeyRotation raises, and       *)
(* getOrCreateEncryptionKey returns another key than the one it was        *)
(* storing. When all three get through, the store holds the three values.  *)
C20_StoreWritesInOrder ==
    \A p \in Procs :
        /\ pc[p] \in {"setKey", "setDate", "setVersion"} =>
               store = StoredUpTo(gh[p].start, loc[p].key, "", pc[p])
        /\ (pc[p] = "done" /\ gh[p].wfail) =>
               /\ store = StoredUpTo(gh[p].start, KeyText(gh[p].gen0 + 1), "", gh[p].failAt)
               /\ op[p] = "forceKeyRotation" => res[p].kind = "error"
               /\ op[p] = "getOrCreateEncryptionKey" => res[p].key = KeyText(gh[p].gen0 + 2)
        /\ (pc[p] = "done" /\ ~gh[p].wfail /\ FreshKey(p) /\ Trusted) =>
               store = StoredUpTo(gh[p].start, res[p].key, store[KEY_VERSION_ALIAS], "done")

\* the new material next to the old creation date and the old version
C20_Witness ==
    /\ Finished("A", "forceKeyRotation")
    /\ gh["A"].failAt = "setDate"
    /\ Active(gh["A"].start)
    /\ store[ENCRYPTION_KEY_ALIAS] # gh["A"].start[ENCRYPTION_KEY_ALIAS]
    /\ store[KEY_CREATION_DATE_ALIAS] = gh["A"].start[KEY_CREATION_DATE_ALIAS]
    /\ store[KEY_VERSION_ALIAS] = gh["A"].start[KEY_VERSION_ALIAS]
    /\ AgeIn(store) > 0

\* the integer the version text of s stands for, 0 when s holds no version
\* or a text parseInt makes no integer of
VersionTextValue(s) ==
    IF /\ KEY_VERSION_ALIAS \in DOMAIN s
       /\ s[KEY_VERSION_ALIAS] # <<>>
       /\ ParseInt(s[KEY_VERSION_ALIAS]) # NaN
    THEN ParseInt(s[KEY_VERSION_ALIAS])
    ELSE 0

(* C19 as stated: the version getKeyVersion hands to getKeyInfo is the     *)
(* stored integer, or 0 when the field is missing, does not parse or its   *)
(* read was rejected; and a rotation that found no valid version stores    *)
(* version 1.                                                              *)
C19_VersionIsZeroOrStored ==
    \A p \in Procs :
        /\ Finished(p, "getKeyInfo") =>
               /\ res[p].info.version \in {0, VersionTextValue(store)}
               /\ NoFailure(p) => res[p].info.version = VersionTextValue(store)
        /\ (/\ Finished(p, "forceKeyRotation")
            /\ ~gh[p].wfail
            /\ VersionTextValue(gh[p].start) = 0)
           => store[KEY_VERSION_ALIAS] = ToString(1)

\* caller p's getOrCreateEncryptionKey went through rotateKey, which read
\* the version n, and no store call of it was rejected
Rotated(p, n) ==
    /\ Finished(p, "getOrCreateEncryptionKey")
    /\ NoFailure(p)
    /\ gh[p].currentVersion = Some(n)

(* C15: nothing keeps two getOrCreateEncryptionKey calls apart: both can   *)
(* find the key stale and both can read the version N before either has   *)
(* written (the witness), and whenever two calls have rotated from the     *)
(* same version N with no store call rejected, the version they leave is   *)
(* N + 1, one of the two increments being lost.                            *)
C15_OverlappingRotationsLoseAnIncrement ==
    \A n \in 0..(MaxStoredVersion + 1) :
        (Rotated("A", n) /\ Rotated("B", n)) => StoredVersion(store) = n + 1

\* both calls started on the stale key at version 1, both read version 1,
\* and the store ends at version 2
C15_Witness ==
    /\ Rotated("A", 1) /\ Rotated("B", 1)
    /\ Trusted
    /\ StoredVersion(gh["A"].start) = 1 /\ StoredVersion(gh["B"].start) = 1
    /\ gh["A"].start = gh["B"].start
    /\ Active(gh["A"].start)
    /\ now - ParseInt(gh["A"].start[KEY_CREATION_DATE_ALIAS]) > KEY_ROTATION_INTERVAL
    /\ ~everFailed
    /\ StoredVersion(store) = 2

(* C16: when two overlapping getOrCreateEncryptionKey calls have both     *)
(* rotated and no store call of either was rejected, the store holds       *)
(* material, creation date and version, the material is the key one of     *)
(* the two generated, the version is greater than the version either call  *)
(* found, and each call returned the key it generated itself, a new one.   *)
C16_OverlappingRotationsLeaveAValidKey ==
    (\E n, m \in 0..(MaxStoredVersion + 1) : Rotated("A", n) /\ Rotated("B", m)) =>
        /\ Active(store)
        /\ store[ENCRYPTION_KEY_ALIAS] \in {gh["A"].newKey[1], gh["B"].newKey[1]}
        /\ store[ENCRYPTION_KEY_ALIAS] \in {res["A"].key, res["B"].key}
        /\ \A p \in Procs :
            /\ StoredVersion(store) > StoredVersion(gh[p].start)
            /\ res[p].key = gh[p].newKey[1]
            /\ FreshKey(p)
        /\ res["A"].key # res["B"].key

\* B read the version after A had written it: the store ends two versions
\* up, with the material of the call that wrote its key last
C16_Witness ==
    /\ Rotated("A", 1) /\ Rotated("B", 2)
    /\ Trusted
    /\ gh["A"].start = gh["B"].start
    /\ StoredVersion(store) = 3
    /\ store[ENCRYPTION_KEY_ALIAS] = res["B"].key

(* C17 as stated: in a trusted environment where no store call was ever   *)
(* rejected, once the periodic check has found needsRotation and the       *)
(* encrypted storage has been initialised again with the key               *)
(* getOrCreateEncryptionKey returned, what was persisted in it before is   *)
(* still readable.                                                         *)
C17_RotationKeepsDataReadable ==
    (/\ Trusted
     /\ ~everFailed
     /\ app.lastInit = "check"
     /\ app.storage # Null /\ app.storage[1].id = "dask-driver-storage"
     /\ app.disk # Null /\ app.disk[1].id = "dask-driver-storage")
    => Readable(app)

\* no call of the key manager is at one of its awaits
Quiet == \A p \in Procs : ~Running(p)

Returnable(s) ==
    /\ ~shouldRotate(GetItem(s, KEY_CREATION_DATE_ALIAS), now)
    /\ Truthy(GetItem(s, ENCRYPTION_KEY_ALIAS))

C23_FailedDateReadRotates ==
    \A p \in Procs :
        /\ (op[p] = "getOrCreateEncryptionKey" /\ gh[p].rfail /\ ~gh[p].rok) =>
               pc[p] # "getStoredKey"
        /\ (/\ Finished(p, "getOrCreateEncryptionKey")
            /\ Active(gh[p].start)
            /\ ~shouldRotate(GetItem(gh[p].start, KEY_CREATION_DATE_ALIAS), now)
            /\ gh[p].currentVersion # Null
            /\ ~gh[p].wfail)
           => /\ gh[p].rfail
              /\ res[p].key = gh[p].newKey[1]
              /\ Holds(store, res[p].key)
              /\ ~Holds(gh[p].start, res[p].key)
              /\ StoredVersion(store) = gh[p].currentVersion[1] + 1
              /\ gh[p].currentVersion[1] \in {StoredVersion(gh[p].start), 0}
              /\ gh[p].rok => gh[p].currentVersion[1] = StoredVersion(gh[p].start)

\* the key was written this very instant; only the read of its date failed
C23_Witness ==
    /\ Finished("A", "getOrCreateEncryptionKey")
    /\ Trusted
    /\ Active(gh["A"].start)
    /\ now - ParseInt(gh["A"].start[KEY_CREATION_DATE_ALIAS]) = 0
    /\ gh["A"].rfail /\ gh["A"].rok /\ ~gh["A"].wfail
    /\ StoredVersion(gh["A"].start) = 1
    /\ StoredVersion(store) = 2
    /\ Holds(store, res["A"].key)

\* caller p's getOrCreateEncryptionKey found no rotation due and no
\* material, and generated a key to store (lines 173-176)
Created(p) ==
    /\ Finished(p, "getOrCreateEncryptionKey")
    /\ gh[p].currentVersion = Null
    /\ gh[p].newKey # Null

(* C24: when getOrCreateEncryptionKey found no rotation due and its read   *)
(* of the material gave nothing, the field being absent or the read        *)
(* rejected, and its writes got through, the key it generated is returned  *)
(* and stored with version 1 and the present time as creation date,        *)
(* whatever the store held before.                                         *)
C24_MissingMaterialCreatesVersionOne ==
    \A p \in Procs :
        (Created(p) /\ ~gh[p].wfail) =>
            /\ Trusted
            /\ res[p].key = gh[p].newKey[1]
            /\ FreshKey(p)
            /\ Holds(store, res[p].key)
            /\ store = StoredUpTo(gh[p].start, res[p].key, ToString(1), "done")
            /\ (Holds(gh[p].start, gh[p].start[ENCRYPTION_KEY_ALIAS]) => gh[p].rfail)

\* the read of the material was rejected while a key at version 2 was
\* stored: the call stored a new key at version 1 over it
C24_Witness ==
    /\ Created("A")
    /\ ~gh["A"].wfail
    /\ gh["A"].rfail /\ gh["A"].rok
    /\ Active(gh["A"].start)
    /\ StoredVersion(gh["A"].start) = 2
    /\ StoredVersion(store) = 1

(* C25 as stated: when caller p's previous call was a clearAllKeys that    *)
(* removed the material and left other fields, a getOrCreateEncryptionKey  *)
(* in a trusted environment in which no store call is rejected stores      *)
(* its new key with the version left in the store plus one, and with       *)
(* version 1 only when no version was left.                                *)
C25_VersionContinuesAfterClear ==
    \A p \in Procs :
        (/\ Finished(p, "getOrCreateEncryptionKey")
         /\ Trusted
         /\ NoFailure(p)
         /\ gh[p].prev \in {"deleteDate", "deleteVersion"}
         /\ ENCRYPTION_KEY_ALIAS \notin DOMAIN gh[p].start)
        => StoredVersion(store) =
             (IF KEY_VERSION_ALIAS \in DOMAIN gh[p].start
              THEN StoredVersion(gh[p].start) + 1 ELSE 1)

\* the step with which a getKeyInfo returns hands over the hasKey and the
\* version its reads of the material and of the version have given
InfoKeepsItsReads ==
    \A p \in Procs :
        (op[p] = "getKeyInfo" /\ pc[p] \in {"infoDate", "shouldRotateKey"} /\ pc'[p] = "done")
        => /\ res'[p].info.hasKey = loc[p].hasKey
           /\ res'[p].info.version = loc[p].infoVersion

(* C26 as stated: the hasKey and the version of the key info are what the  *)
(* reads of the material and of the version gave, also when the read of    *)
(* the creation date is rejected.                                          *)
C26_InfoFieldsAreIndependent == [][InfoKeepsItsReads]_vars

\* caller p's getOrCreateEncryptionKey returned from its try block, not
\* from the catch block of lines 179-186
ReturnedFromTry(p) ==
    /\ Finished(p, "getOrCreateEncryptionKey")
    /\ Trusted
    /\ ~gh[p].wfail

\* the step with which a getOrCreateEncryptionKey returns from its try
\* block returns the material the store holds after the step
ReturnsStored(p) ==
    (pc[p] # "done" /\ ReturnedFromTry(p)') => Holds(store', res'[p].key)

ReturnsStoredUnlessOverlapped ==
    \A p \in Procs :
        (~gh'[p].overlap \/ gh'[p].newKey = Null) => ReturnsStored(p)
OnlyInitializeStorageWrites ==
    /\ store' # store =>
           /\ op["A"] = "getOrCreateEncryptionKey"
           /\ pc["A"] \in {"setKey", "setDate", "setVersion"}
           /\ ~Running("B")
    /\ \A p \in Procs :
           (op[p] = "getKeyInfo" \/ op'[p] = "getKeyInfo") => store' = store
    /\ (app.pending = "none" /\ app'.pending # "none") =>
           /\ Finished("B", "getKeyInfo")
           /\ res["B"].info.needsRotation
           /\ store' = store

(* C28: no step of a getKeyInfo, whichever of its reads are rejected,      *)
(* changes the store; the periodic check changes it only through the       *)
(* writes of the getOrCreateEncryptionKey that initializeStorage awaits,   *)
(* which the check sets off only when needsRotation is true.               *)
C28_KeyInfoIsReadOnly == [][OnlyInitializeStorageWrites]_vars

\* a periodic check on a stored key some of whose reads were rejected has
\* reported needsRotation and left the store as it found it
C28_Witness ==
    /\ Finished("B", "getKeyInfo")
    /\ gh["B"].rfail /\ gh["B"].rok
    /\ res["B"].info.needsRotation
    /\ Active(store)
    /\ store = gh["B"].start
    /\ app.isStorageInitialized

\* a step never takes isStorageInitialized back, leaves it true only with
\* the storage variable assigned, and never uses the variable unassigned;
\* while isStorageInitialized stays false nothing is persisted or removed
\* and getItem gives null
AdapterIsSafe ==
    /\ app.isStorageInitialized => app'.isStorageInitialized
    /\ app'.isStorageInitialized =>
           /\ app'.storage # Null
           /\ app'.storage[1] \in {FallbackHandle} \cup
                  {EncryptedHandle(KeyText(n)) : n \in 1..generated}
           /\ AdapterGetItem(app') \in {"value", "null"}
    /\ ~app'.fault
    /\ ~app'.isStorageInitialized =>
           /\ app'.storage = Null
           /\ app'.disk = app.disk
           /\ AdapterGetItem(app') = "null"

(* C29: isStorageInitialized becomes true only with the storage handle     *)
(* assigned, by the encrypted path or by the fallback, and never becomes   *)
(* false again; while it is false getItem gives null and setItem and       *)
(* removeItem change nothing; while it is true the adapter works on an     *)
(* assigned handle, also while initializeStorage is running again.         *)
C29_AdapterWaitsForStorage == [][AdapterIsSafe]_vars

\* the store persisted its state through the fallback instance while the
\* initialisation set off by the periodic check was at an await, and
\* getItem gives it back
C29_Witness ==
    /\ Running("A")
    /\ app.pending = "check"
    /\ app.isStorageInitialized
    /\ app.storage = Some(FallbackHandle)
    /\ app.disk = app.storage
    /\ AdapterGetItem(app) = "value"
    /\ gh["A"].touched

-----------------------------------------------------------------------------
(* The classifier on every build and platform: the calls of one caller,    *)
(* from a first start, in the production and the development build on an   *)
(* iPhone, an iPad and an Android device.                                  *)
InitEnv ==
    /\ env \in Envs
    /\ store = EmptyStore
    /\ now = 0
    /\ generated = 0
    /\ pc = [p \in Procs |-> "idle"]
    /\ op = [p \in Procs |-> "none"]
    /\ loc = [p \in Procs |-> NoLoc]
    /\ res = [p \in Procs |-> NoRes]
    /\ gh = [p \in Procs |-> NoGh]
    /\ everFailed = FALSE
    /\ app = NoApp

NextEnv == Step("A")

SpecEnv == InitEnv /\ [][NextEnv]_vars

\* the runtime is iOS with system name 'iOS', or Android
SimulatorOrEmulatorRuntime ==
    (env.os = "ios" /\ env.systemName = "iOS") \/ env.os = "android"

\* the call took the ephemeral path: it returned at once, with no store call
TookEphemeralPath(p) == pc[p] = "done" /\ ~gh[p].touched

====
